---- MODULE Spec2Model ----
(***************************************************************************)
(* State-machine model of the sheSafe tracker backend                      *)
(* (src/backend/backend.py, src/backend/main.py).                          *)
(*                                                                         *)
(* The Redis key space is the shared state: device:latest:<d> (latest),   *)
(* device:history:<d> (history), token:<t> (tokens) and unmapped:links     *)
(* (quarantine).  Every request is a process; one action is one Redis      *)
(* command together with the local computation that precedes it, so the    *)
(* interleavings of the model are the interleavings of the commands the    *)
(* asyncio handlers send.  json.dumps/json.loads of the dictionaries the   *)
(* handlers store (string keys; str, float or None values) gives back the  *)
(* same dictionary, so the store holds the dictionary itself.              *)
(***************************************************************************)
EXTENDS Integers, Sequences, FiniteSets, TLC

VARIABLES latest, history, tokens, quarantine, now, req, nreq,
          issued, pushed, redeem, solo, pre, sim, watch

vars == <<latest, history, tokens, quarantine, now, req, nreq,
          issued, pushed, redeem, solo, pre, sim, watch>>

\* the backend's part of the state; sim is the SIM800L gateway process
\* (src/gateway/SIM800L_gateway.py), watch the upload gateway process
\* (src/gateway/upload_gateway.py)
backend == <<latest, history, tokens, quarantine, now, req, nreq,
             issued, pushed, redeem, solo, pre>>

(***************************************************************************)
(* Bounds of the model.                                                    *)
(***************************************************************************)
\* webhook, upload and mark-safe requests served in one behaviour
MaxRequests == 3
\* requests in flight at once
NumProcs == 2
\* the clock runs from 0 to MaxTime
MaxTime == 1
\* cap of push_history (1000 in the source), scaled down
HistoryCap == 2
\* TOKEN_TTL_SECONDS (900 in the source), scaled down to clock ticks
TokenTTL == 1

Procs == 1..NumProcs
Devices == {"D1", "D2"}

\* JSON null / Python None
Null == "null"

(***************************************************************************)
(* Python dictionaries: functions from a set of keys.                      *)
(***************************************************************************)
EmptyDict == [k \in {} |-> Null]

\* d[k] = v on a dict or on the key space
Put(d, k, v) == [x \in (DOMAIN d) \cup {k} |-> IF x = k THEN v ELSE d[x]]

\* dict.get(k, default)
Get(d, k, default) == IF k \in DOMAIN d THEN d[k] ELSE default

\* dict.update(e)
Update(d, e) == [x \in (DOMAIN d) \cup (DOMAIN e) |-> IF x \in DOMAIN e THEN e[x] ELSE d[x]]

(***************************************************************************)
(* Texts are sequences of characters; RE_TOKEN is [?&]token=([A-Za-z0-9_\-]+) *)
(***************************************************************************)
\* the characters of [A-Za-z0-9_\-] that the modelled texts use
TokenChars == {"a", "b", "c", "1", "2", "3", "t", "o", "k", "e", "n", "x", "h", "i", "_", "-"}

TokenLit == <<"t", "o", "k", "e", "n", "=">>

\* the pattern without its [?&]: any character may stand before token=
MatchAt_any_separator(s, i) ==
    /\ i + 7 <= Len(s)
    /\ SubSeq(s, i + 1, i + 6) = TokenLit
    /\ s[i + 7] \in TokenChars

\* the pattern matches at position i: [?&], then token=, then one token character
MatchAt(s, i) ==
    /\ i + 7 <= Len(s)
    /\ s[i] \in {"?", "&"}
    /\ SubSeq(s, i + 1, i + 6) = TokenLit
    /\ s[i + 7] \in TokenChars

\* the last position of the run of token characters that starts at j
RunEnd(s, j) ==
    CHOOSE k \in j..Len(s) :
        /\ \A m \in j..k : s[m] \in TokenChars
        /\ (k = Len(s) \/ s[k + 1] \notin TokenChars)

\* RE_TOKEN.search(s): <<>> for no match, else <<group(1)>> of the leftmost match
RE_TOKEN_search(s) ==
    LET hits == {i \in 1..Len(s) : MatchAt(s, i)}
    IN  IF hits = {} THEN <<>>
        ELSE LET i == CHOOSE h \in hits : \A g \in hits : h <= g
             IN  <<SubSeq(s, i + 7, RunEnd(s, i + 7))>>

(***************************************************************************)
(* Values the requests carry.                                              *)
(***************************************************************************)
Tok1 == <<"a", "1">>
Tok2 == <<"b", "2">>
\* the values uuid4().hex[:12] can give
TokenPool == {Tok1, Tok2}
\* a well-formed token that was never issued
TokUnknown == <<"c", "3">>

\* "x?token=a1"
SmsTok1 == <<"x", "?">> \o TokenLit \o Tok1
\* "x&token=b2&k"
SmsTok2 == <<"x", "&">> \o TokenLit \o Tok2 \o <<"&", "k">>
\* "?token=c3"
SmsUnknown == <<"?">> \o TokenLit \o TokUnknown
\* "xtoken=a1": no [?&] in front of token=
SmsNoSep == <<"x">> \o TokenLit \o Tok1
\* "hi"
SmsPlain == <<"h", "i">>

Senders == {"+91"}

(***************************************************************************)
(* Workloads: the requests the clients send in a behaviour.                *)
(*   budget   how many webhook, upload, mark-safe and resolve requests     *)
(*   pool     the tokens uuid4 can give to gen_token                       *)
(*   bind     the devices gen_token is asked for                           *)
(*   devices  the devices upload and mark-safe requests name               *)
(*   auth     the auth_token of a mark-safe request (<<>>: none)           *)
(*   lookups  the tokens resolve-token is asked for                        *)
(*   texts    the raw_sms of a webhook event                               *)
(*   times    the timestamp a caller supplies (0: none, it is falsy)       *)
(*   coords   lat and lon of an upload (Null: the form field is absent)    *)
(*   files    whether an upload has a file part                            *)
(*   outage   whether the store fails the token lookup of a webhook event  *)
(*            (the connection drops or times out for that one command)     *)
(***************************************************************************)
\* the token flows: issue, SMS link, redemption, expiry
TokenLoad ==
    [budget |-> MaxRequests,
     pool |-> {Tok1}, bind |-> {"D1"}, devices |-> {"D1"},
     auth |-> {Tok1}, lookups |-> {Tok1},
     texts |-> {SmsTok1},
     times |-> {0}, coords |-> {<<"12.0", "77.0">>}, files |-> {TRUE},
     outage |-> {FALSE}]

\* the error paths: SMS texts with and without a tracking link, unknown
\* tokens, devices without a record
ErrorLoad ==
    [budget |-> MaxRequests - 1,
     pool |-> {Tok1}, bind |-> {"D1"}, devices |-> {"D1"},
     auth |-> {<<>>, Tok1}, lookups |-> {Tok1, TokUnknown},
     texts |-> {SmsTok1, SmsTok2, SmsUnknown, SmsNoSep, SmsPlain, <<>>},
     times |-> {0, 9}, coords |-> {<<"12.0", "77.0">>}, files |-> {TRUE},
     outage |-> {FALSE, TRUE}]

\* the presence record and its history: uploads, SMS links, mark-safe
PresenceLoad ==
    [budget |-> MaxRequests - 1,
     pool |-> {Tok1}, bind |-> {"D1"}, devices |-> {"D1"},
     auth |-> {<<>>, Tok1}, lookups |-> {Tok1},
     texts |-> {SmsTok1},
     times |-> {0},
     coords |-> {<<Null, Null>>, <<"12.0", "77.0">>, <<"13.0", Null>>, <<Null, "78.0">>},
     files |-> {FALSE, TRUE},
     outage |-> {FALSE}]

\* two devices side by side, the token bound to the second one
IsolationLoad ==
    [budget |-> MaxRequests - 1,
     pool |-> {Tok1}, bind |-> {"D2"}, devices |-> {"D1", "D2"},
     auth |-> {Tok1}, lookups |-> {Tok1},
     texts |-> {SmsTok1},
     times |-> {0}, coords |-> {<<"12.0", "77.0">>}, files |-> {TRUE},
     outage |-> {FALSE}]

(***************************************************************************)
(* The store commands (backend.py) as functions of the key space.          *)
(***************************************************************************)
Remove(f, k) == [x \in (DOMAIN f) \ {k} |-> f[x]]

\* RedisClient.get_latest: <<>> for None, else <<the dictionary>>
get_latest(device) == IF device \in DOMAIN latest THEN <<latest[device]>> ELSE <<>>

\* get_latest(device) or {}
get_latest_or_empty(device) == IF device \in DOMAIN latest THEN latest[device] ELSE EmptyDict

\* one key for all devices: the payload becomes the record of every device
set_latest_shared_key(device, payload) ==
    [d \in (DOMAIN latest) \cup {device} |-> payload]

\* a SET that keeps the stored fields the payload does not have
set_latest_merged(device, payload) ==
    Put(latest, device,
        Update(IF device \in DOMAIN latest THEN latest[device] ELSE EmptyDict, payload))

\* RedisClient.set_latest: the key space after SET
set_latest(device, payload) == Put(latest, device, payload)

\* RPUSH in place of LPUSH: the payload goes to the tail
lpush_at_tail(list, payload) == Append(list, payload)

\* LPUSH: the list after the command
lpush(list, payload) == <<payload>> \o list

\* LTRIM list start stop, for 0 <= start: the list after the command
ltrim(list, start, stop) ==
    LET last == IF stop < 0 THEN Len(list) + stop ELSE stop
    IN  SubSeq(list, start + 1, IF last + 1 < Len(list) THEN last + 1 ELSE Len(list))

\* r.get(token_key(token)): the bound device, Null when the key is absent
token_get(token) == IF token \in DOMAIN tokens THEN tokens[token].device ELSE Null

\* create_token without EX: the key never expires
create_token_no_expiry(token, device, ttl) ==
    Put(tokens, token, [device |-> device, expires |-> now + ttl + MaxTime + 1])

\* RedisClient.create_token with the token uuid4 gave: SET key device EX ttl
create_token(token, device, ttl) ==
    Put(tokens, token, [device |-> device, expires |-> now + ttl])

\* consume_token as a plain GET: the key is read and left in place
consume_token_get_only(token) == <<token_get(token), tokens>>

\* RedisClient.consume_token, the Lua script: <<value returned, key space after>>
consume_token(token) ==
    LET v == token_get(token)
    IN  <<v, IF v # Null THEN Remove(tokens, token) ELSE tokens>>

(***************************************************************************)
(* Requests.  Besides the handler's local variables a request counts the   *)
(* writes it has made: sets (set_latest calls), pushes (history LPUSHes)    *)
(* and unmapped (LPUSHes to unmapped:links); failed tells that a store     *)
(* call of the request raised.                                             *)
(***************************************************************************)
NoResp == [code |-> 0, ok |-> FALSE, detail |-> "", device |-> Null]

Idle == [op |-> "idle", pc |-> "idle", device |-> Null, token |-> <<>>,
         raw |-> <<>>, sender |-> Null, ts |-> 0, lat |-> Null, lon |-> Null,
         file |-> FALSE, rec |-> EmptyDict, entry |-> EmptyDict, next |-> "idle",
         resp |-> NoResp, sets |-> 0, pushes |-> 0, unmapped |-> 0,
         failed |-> FALSE]

Resp(code, ok, detail, device) ==
    [code |-> code, ok |-> ok, detail |-> detail, device |-> device]

\* now_iso(): the instant the clock shows
now_iso == now

Quiet(p) == \A q \in Procs \ {p} : req[q].pc = "idle"

\* a finished request's response is delivered before anything else happens
NoneDone == \A q \in Procs : req[q].pc # "done"

\* the request slots are interchangeable: a request takes the lowest free one
FreeSlot(p) ==
    /\ NoneDone
    /\ req[p].pc = "idle"
    /\ \A q \in Procs : q < p => req[q].pc # "idle"

\* the event a webhook or upload request answered ok has applied
NoEvent == [op |-> "none", device |-> Null, raw |-> <<>>, sender |-> Null,
            ts |-> 0, lat |-> Null, lon |-> Null, file |-> FALSE]
Event(r) ==
    IF r.op \in {"webhook_sms", "upload"} /\ r.resp.ok
    THEN [op |-> r.op, device |-> r.device, raw |-> r.raw, sender |-> r.sender,
          ts |-> r.ts, lat |-> r.lat, lon |-> r.lon, file |-> r.file]
    ELSE NoEvent

\* the key space when a request arrives, and in last the event of the
\* request that ran alone and was answered just before
Snapshot == [latest |-> latest, history |-> history,
             quarantine |-> quarantine, tokens |-> tokens, last |-> pre.last]
NoSnap == [latest |-> EmptyDict, history |-> EmptyDict,
           quarantine |-> <<>>, tokens |-> EmptyDict, last |-> NoEvent]

\* a request arrives at a free slot
Begin(p) ==
    /\ FreeSlot(p)
    /\ solo' = IF Quiet(p) THEN p ELSE 0
    /\ pre' = IF Quiet(p) THEN Snapshot ELSE NoSnap
    /\ UNCHANGED <<sim, watch>>

\* a request for a token arrives: the pool bounds how many there are
Arrive(p) ==
    /\ Begin(p)
    /\ nreq' = nreq

\* any other request arrives
ArriveCounted(p, w) ==
    /\ Begin(p)
    /\ nreq < w.budget
    /\ nreq' = nreq + 1

\* a later step of a request
Step(p, at) ==
    /\ NoneDone
    /\ req[p].pc = at
    /\ UNCHANGED <<nreq, solo, pre, sim, watch>>

\* a list back to front
Reverse(list) == [i \in 1..Len(list) |-> list[Len(list) + 1 - i]]

\* a gateway process that is not running
Off == [pc |-> "off"]

\* the store holds latest and history, and no request is in flight
InitStore(latest0, history0) ==
    /\ latest = latest0
    /\ history = history0
    /\ tokens = EmptyDict
    /\ quarantine = <<>>
    /\ now = 0
    /\ req = [p \in Procs |-> Idle]
    /\ nreq = 0
    /\ issued = EmptyDict
    /\ pushed = [d \in Devices |-> Reverse(history0[d])]
    /\ redeem = [t \in TokenPool |->
                    [calls |-> 0, live |-> 0, won |-> 0, none |-> 0, notfound |-> 0]]
    /\ solo = 0
    /\ pre = NoSnap

\* the backend starts on a store that holds latest and history
InitOn(latest0, history0) ==
    /\ InitStore(latest0, history0)
    /\ sim = Off
    /\ watch = Off

NoHistory == [d \in Devices |-> <<>>]

\* an empty store
Init == InitOn(EmptyDict, NoHistory)

\* what upload(D1, lat 12.0, lon 77.0) at instant 0 leaves in an empty store,
\* and what a mark-safe of D1 after it leaves
SeedRecord == [timestamp |-> 0, status |-> "active", lat |-> "12.0", lon |-> "77.0"]
SeedEntry == [event |-> "location_update", ts |-> 0, lat |-> "12.0", lon |-> "77.0"]
SeedSafeEntry == [event |-> "marked_safe", ts |-> 0]

\* the store may hold a device's record from before the service started
InitPresence ==
    \/ InitOn(EmptyDict, NoHistory)
    \/ InitOn(Put(EmptyDict, "D1", SeedRecord),
              [NoHistory EXCEPT !["D1"] = <<SeedEntry>>])
    \/ InitOn(Put(EmptyDict, "D1", Put(SeedRecord, "status", "safe")),
              [NoHistory EXCEPT !["D1"] = <<SeedSafeEntry, SeedEntry>>])

\* both devices have reported a location before the service started
InitIsolation ==
    InitOn([d \in Devices |-> SeedRecord], [d \in Devices |-> <<SeedEntry>>])

(***************************************************************************)
(* POST /api/token/generate                                                *)
(***************************************************************************)
gen_token(p, w) ==
    \E device \in w.bind, t \in w.pool \ DOMAIN issued :
        /\ Arrive(p)
        /\ tokens' = create_token(t, device, TokenTTL)
        /\ issued' = Put(issued, t, [device |-> device, expires |-> now + TokenTTL])
        /\ req' = [req EXCEPT ![p] = [Idle EXCEPT !.op = "gen_token", !.pc = "done",
                       !.device = device, !.token = t,
                       !.resp = Resp(200, TRUE, "token", device)]]
        /\ UNCHANGED <<latest, history, quarantine, now, pushed, redeem>>

(***************************************************************************)
(* push_history(device, payload): LPUSH, then LTRIM 0 cap-1, two commands. *)
(* The caller leaves the payload in entry and its continuation in next.    *)
(***************************************************************************)
push_history_lpush(p) ==
    /\ Step(p, "lpush")
    /\ history' = [history EXCEPT ![req[p].device] = lpush(@, req[p].entry)]
    /\ pushed' = [pushed EXCEPT ![req[p].device] = Append(@, req[p].entry)]
    /\ req' = [req EXCEPT ![p].pc = "ltrim", ![p].pushes = @ + 1]
    /\ UNCHANGED <<latest, tokens, quarantine, now, issued, redeem>>

push_history_ltrim(p) ==
    /\ Step(p, "ltrim")
    /\ history' = [history EXCEPT ![req[p].device] = ltrim(@, 0, HistoryCap - 1)]
    /\ req' = [req EXCEPT ![p].pc = req[p].next, ![p].entry = EmptyDict,
                          ![p].next = "idle"]
    /\ UNCHANGED <<latest, tokens, quarantine, now, issued, pushed, redeem>>

(***************************************************************************)
(* POST /api/mark-safe                                                     *)
(***************************************************************************)
\* mark_safe that takes an empty record for a device that has none
mark_safe_found_upsert(device, auth_token, rec) ==
    [Idle EXCEPT !.op = "mark_safe",
         !.pc = IF auth_token # <<>> THEN "m_consume" ELSE "m_set",
         !.device = device, !.token = auth_token,
         !.rec = IF rec = <<>> THEN EmptyDict ELSE rec[1]]

\* mark_safe that redeems the token before it looks at the record
mark_safe_found_redeems_first(device, auth_token, rec) ==
    IF auth_token # <<>>
    THEN [Idle EXCEPT !.op = "mark_safe", !.pc = "m_consume",
              !.device = device, !.token = auth_token,
              !.rec = IF rec = <<>> THEN EmptyDict ELSE rec[1]]
    ELSE IF rec = <<>> \/ rec[1] = EmptyDict
    THEN [Idle EXCEPT !.op = "mark_safe", !.pc = "done",
              !.device = device, !.token = auth_token,
              !.resp = Resp(404, FALSE, "device not found", Null)]
    ELSE [Idle EXCEPT !.op = "mark_safe", !.pc = "m_set",
              !.device = device, !.token = auth_token, !.rec = rec[1]]

\* the request after rec = redis.get_latest(req.device): 404 when there is none
mark_safe_found(device, auth_token, rec) ==
    IF rec = <<>> \/ rec[1] = EmptyDict
    THEN [Idle EXCEPT !.op = "mark_safe", !.pc = "done",
              !.device = device, !.token = auth_token,
              !.resp = Resp(404, FALSE, "device not found", Null)]
    ELSE [Idle EXCEPT !.op = "mark_safe",
              !.pc = IF auth_token # <<>> THEN "m_consume" ELSE "m_set",
              !.device = device, !.token = auth_token,
              !.rec = rec[1]]

mark_safe_get(p, w) ==
    \E device \in w.devices, auth_token \in w.auth :
        /\ ArriveCounted(p, w)
        /\ req' = [req EXCEPT ![p] = mark_safe_found(device, auth_token, get_latest(device))]
        /\ redeem' = IF req'[p].pc = "done" /\ auth_token \in DOMAIN issued
                     THEN [redeem EXCEPT ![auth_token].notfound = @ + 1]
                     ELSE redeem
        /\ UNCHANGED <<latest, history, tokens, quarantine, now, issued, pushed>>

\* mapped = redis.consume_token(req.auth_token); 401 unless mapped == req.device
mark_safe_consume(p) ==
    /\ Step(p, "m_consume")
    /\ LET t == req[p].token
           res == consume_token(t)
           unexpired == t \in DOMAIN issued /\ now < issued[t].expires
       IN  /\ tokens' = res[2]
           /\ redeem' = IF t \in DOMAIN issued
                        THEN [redeem EXCEPT
                                 ![t].calls = @ + 1,
                                 ![t].live = @ + (IF unexpired THEN 1 ELSE 0),
                                 ![t].won = @ + (IF res[1] = issued[t].device THEN 1 ELSE 0),
                                 ![t].none = @ + (IF res[1] = Null THEN 1 ELSE 0)]
                        ELSE redeem
           /\ req' = [req EXCEPT ![p] =
                   IF res[1] # req[p].device
                   THEN [@ EXCEPT !.pc = "done", !.rec = EmptyDict,
                             !.resp = Resp(401, FALSE, "invalid auth token", Null)]
                   ELSE [@ EXCEPT !.pc = "m_set"]]
    /\ UNCHANGED <<latest, history, quarantine, now, issued, pushed>>

\* mark_safe that refreshes the timestamp and leaves the status as it was
mark_safe_record_keeps_status(rec) == Put(rec, "timestamp", now_iso)

\* rec["status"] = "safe"; rec["timestamp"] = now_iso()
mark_safe_record(rec) == Put(Put(rec, "status", "safe"), "timestamp", now_iso)

\* the record is written; push_history(marked_safe); return ok
mark_safe_set(p) ==
    /\ Step(p, "m_set")
    /\ LET rec == mark_safe_record(req[p].rec)
       IN  /\ latest' = set_latest(req[p].device, rec)
           /\ req' = [req EXCEPT ![p].pc = "lpush", ![p].rec = EmptyDict,
                          ![p].sets = @ + 1,
                          ![p].entry = [event |-> "marked_safe", ts |-> rec["timestamp"]],
                          ![p].next = "done",
                          ![p].resp = Resp(200, TRUE, "safe", Null)]
    /\ UNCHANGED <<history, tokens, quarantine, now, issued, pushed, redeem>>

(***************************************************************************)
(* POST /api/webhook/sms                                                   *)
(***************************************************************************)
\* x_webhook_token != WEBHOOK_SECRET
webhook_sms_unauth(p, w) ==
    /\ ArriveCounted(p, w)
    /\ req' = [req EXCEPT ![p] = [Idle EXCEPT !.op = "webhook_sms", !.pc = "done",
                   !.resp = Resp(401, FALSE, "invalid webhook token", Null)]]
    /\ UNCHANGED <<latest, history, tokens, quarantine, now, issued, pushed, redeem>>

\* an event that is dropped: unmapped:links is left as it was
unmapped_lpush_dropped(payload) == quarantine

\* redis.r.lpush("unmapped:links", json.dumps(payload)): the list after it
unmapped_lpush(payload) == lpush(quarantine, payload)

\* a lookup that redeems: GET and DEL in place of the plain GET
webhook_token_get_redeems(token) == consume_token(token)

\* device = redis.r.get(redis.token_key(token)): <<value returned, key space after>>
webhook_token_get(token) == <<token_get(token), tokens>>

\* the payload is read and searched; without a match the event is quarantined,
\* with one the bound device is looked up with a plain GET; when the GET
\* raises, the except clause sets device = None
webhook_sms_lookup(p, w) ==
    \E raw_sms \in w.texts, sender \in Senders, timestamp \in w.times,
       down \in w.outage :
        LET ts == IF timestamp # 0 THEN timestamp ELSE now_iso
            m == RE_TOKEN_search(raw_sms)
            got == IF m = <<>> \/ down THEN <<Null, tokens>> ELSE webhook_token_get(m[1])
        IN  /\ ArriveCounted(p, w)
            /\ tokens' = got[2]
            /\ IF m = <<>>
               THEN /\ quarantine' = unmapped_lpush(
                           [raw |-> raw_sms, from |-> sender, ts |-> ts])
                    /\ req' = [req EXCEPT ![p] = [Idle EXCEPT !.op = "webhook_sms",
                                   !.pc = "done", !.raw = raw_sms, !.sender = sender,
                                   !.ts = ts,
                                   !.unmapped = Len(quarantine') - Len(quarantine),
                                   !.resp = Resp(200, FALSE, "no token in SMS", Null)]]
               ELSE /\ quarantine' = quarantine
                    /\ req' = [req EXCEPT ![p] = [Idle EXCEPT !.op = "webhook_sms",
                                   !.pc = "w_route", !.raw = raw_sms, !.sender = sender,
                                   !.ts = ts, !.token = m[1],
                                   !.device = got[1], !.failed = down]]
            /\ UNCHANGED <<latest, history, now, issued, pushed, redeem>>

\* an update that sets lat and lon to None instead of carrying them forward
webhook_update_drops_coords(old, r) ==
    Update(old, [lat |-> Null, lon |-> Null, timestamp |-> r.ts, status |-> "active",
                 last_sms |-> r.raw, sender |-> r.sender])

\* latest.update({lat, lon, timestamp, status, last_sms, sender})
webhook_update(old, r) ==
    Update(old, [lat |-> Get(old, "lat", Null),
                 lon |-> Get(old, "lon", Null),
                 timestamp |-> r.ts,
                 status |-> "active",
                 last_sms |-> r.raw,
                 sender |-> r.sender])

\* if not device: quarantine; else latest = get_latest(device) or {}; latest.update
webhook_sms_route(p) ==
    /\ Step(p, "w_route")
    /\ LET r == req[p]
           device == r.device
           old == get_latest_or_empty(device)
       IN  IF device = Null
           THEN /\ quarantine' = unmapped_lpush(
                       [raw |-> r.raw, from |-> r.sender, ts |-> r.ts, token |-> r.token])
                /\ req' = [req EXCEPT ![p].pc = "done",
                               ![p].unmapped = @ + Len(quarantine') - Len(quarantine),
                               ![p].resp = Resp(200, FALSE, "unknown token", Null)]
           ELSE /\ quarantine' = quarantine
                /\ req' = [req EXCEPT ![p].pc = "w_set",
                               ![p].rec = webhook_update(old, r)]
    /\ UNCHANGED <<latest, history, tokens, now, issued, pushed, redeem>>

\* redis.set_latest(device, latest); push_history(sos_via_link); return ok
webhook_sms_set(p) ==
    /\ Step(p, "w_set")
    /\ latest' = set_latest(req[p].device, req[p].rec)
    /\ req' = [req EXCEPT ![p].pc = "lpush", ![p].rec = EmptyDict,
                   ![p].sets = @ + 1,
                   ![p].entry = [event |-> "sos_via_link", ts |-> req[p].ts,
                                 sender |-> req[p].sender],
                   ![p].next = "done",
                   ![p].resp = Resp(200, TRUE, "", req[p].device)]
    /\ UNCHANGED <<history, tokens, quarantine, now, issued, pushed, redeem>>

(***************************************************************************)
(* GET /api/location                                                       *)
(***************************************************************************)
\* LocationResponse(...) built from the stored record. lat and lon are stored
\* as JSON numbers (upload stores float(lat)), so float(rec["lat"]) is the
\* stored number itself; a key that is absent or None gives None.
LocationResponse(device, rec) ==
    [device |-> device,
     lat |-> Get(rec, "lat", Null),
     lon |-> Get(rec, "lon", Null),
     timestamp |-> Get(rec, "timestamp", Null),
     status |-> Get(rec, "status", "active"),
     audio_url |-> Get(rec, "audio_url", Null),
     audio_ts |-> Get(rec, "audio_ts", Null)]

\* get_location that answers a device without record with a default record
get_location_found_default(device, rec) ==
    [Idle EXCEPT !.op = "get_location", !.pc = "done", !.device = device,
         !.rec = LocationResponse(device, IF rec = <<>> THEN EmptyDict ELSE rec[1]),
         !.resp = Resp(200, TRUE, "", device)]

\* the request after rec = redis.get_latest(device): 404 when there is none
get_location_found(device, rec) ==
    IF rec = <<>> \/ rec[1] = EmptyDict
    THEN [Idle EXCEPT !.op = "get_location", !.pc = "done", !.device = device,
              !.resp = Resp(404, FALSE, "device not found", Null)]
    ELSE [Idle EXCEPT !.op = "get_location", !.pc = "done", !.device = device,
              !.rec = LocationResponse(device, rec[1]),
              !.resp = Resp(200, TRUE, "", device)]

get_location(p, w) ==
    \E device \in w.devices :
        /\ ArriveCounted(p, w)
        /\ req' = [req EXCEPT ![p] = get_location_found(device, get_latest(device))]
        /\ UNCHANGED <<latest, history, tokens, quarantine, now, issued, pushed, redeem>>

(***************************************************************************)
(* GET /api/resolve-token                                                  *)
(***************************************************************************)
resolve_token_lookup(p, w) ==
    \E token \in w.lookups :
        /\ ArriveCounted(p, w)
        /\ LET device == token_get(token)
           IN  req' = [req EXCEPT ![p] =
                   IF device = Null
                   THEN [Idle EXCEPT !.op = "resolve_token", !.pc = "done",
                             !.token = token,
                             !.resp = Resp(404, FALSE, "token not found", Null)]
                   ELSE [Idle EXCEPT !.op = "resolve_token", !.pc = "r_get",
                             !.token = token, !.device = device]]
        /\ UNCHANGED <<latest, history, tokens, quarantine, now, issued, pushed, redeem>>

resolve_token_get(p) ==
    /\ Step(p, "r_get")
    /\ req' = [req EXCEPT ![p].pc = "done",
                   ![p].rec = get_latest_or_empty(req[p].device),
                   ![p].resp = Resp(200, TRUE, "", req[p].device)]
    /\ UNCHANGED <<latest, history, tokens, quarantine, now, issued, pushed, redeem>>

(***************************************************************************)
(* POST /api/upload                                                        *)
(***************************************************************************)
\* x_device_token != DEVICE_UPLOAD_TOKEN
upload_unauth(p, w) ==
    /\ ArriveCounted(p, w)
    /\ req' = [req EXCEPT ![p] = [Idle EXCEPT !.op = "upload", !.pc = "done",
                   !.resp = Resp(401, FALSE, "invalid device upload token", Null)]]
    /\ UNCHANGED <<latest, history, tokens, quarantine, now, issued, pushed, redeem>>

\* the status an upload gives the record it read
upload_status(old) == Get(old, "status", "active")

\* latest = get_latest(device) or {}; timestamp, status, lat and lon are set in it
upload_get(p, w) ==
    \E device \in w.devices, coords \in w.coords,
       timestamp \in w.times, file \in w.files :
        LET lat == coords[1]
            lon == coords[2]
            ts == IF timestamp # 0 THEN timestamp ELSE now_iso
            old == get_latest_or_empty(device)
            base == Put(Put(old, "timestamp", ts), "status", upload_status(old))
            located == lat # Null /\ lon # Null
            after == IF file THEN "u_file" ELSE "u_set"
        IN  /\ ArriveCounted(p, w)
            /\ req' = [req EXCEPT ![p] =
                   IF located
                   THEN [Idle EXCEPT !.op = "upload", !.pc = "lpush",
                             !.device = device, !.lat = lat, !.lon = lon, !.ts = ts,
                             !.file = file,
                             !.rec = Put(Put(base, "lat", lat), "lon", lon),
                             !.entry = [event |-> "location_update", ts |-> ts,
                                        lat |-> lat, lon |-> lon],
                             !.next = after]
                   ELSE [Idle EXCEPT !.op = "upload", !.pc = after,
                             !.device = device, !.lat = lat, !.lon = lon, !.ts = ts,
                             !.file = file, !.rec = base]]
            /\ UNCHANGED <<latest, history, tokens, quarantine, now, issued, pushed, redeem>>

\* /static/audio/<device>_<unique><ext>; secrets.token_urlsafe(8) gives every
\* file a name of its own, here the number of the request
audio_rel(device, unique) == <<"/static/audio/", device, unique>>

\* the file is written to AUDIO_DIR; audio_url and audio_ts are set; push_history
upload_file_saved(p) ==
    /\ Step(p, "u_file")
    /\ LET r == req[p]
           url == audio_rel(r.device, nreq)
       IN  req' = [req EXCEPT ![p].pc = "lpush",
                       ![p].rec = Put(Put(r.rec, "audio_url", url), "audio_ts", r.ts),
                       ![p].entry = [event |-> "audio_upload", ts |-> r.ts, path |-> url],
                       ![p].next = "u_set"]
    /\ UNCHANGED <<latest, history, tokens, quarantine, now, issued, pushed, redeem>>

\* writing the file raised: 500, the latest record is not written
upload_file_failed(p) ==
    /\ Step(p, "u_file")
    /\ req' = [req EXCEPT ![p].pc = "done", ![p].rec = EmptyDict,
                   ![p].resp = Resp(500, FALSE, "failed to save file", Null)]
    /\ UNCHANGED <<latest, history, tokens, quarantine, now, issued, pushed, redeem>>

\* redis.set_latest(device, latest); return ok
upload_set(p) ==
    /\ Step(p, "u_set")
    /\ latest' = set_latest(req[p].device, req[p].rec)
    /\ req' = [req EXCEPT ![p].pc = "done", ![p].rec = EmptyDict,
                   ![p].sets = @ + 1,
                   ![p].resp = Resp(200, TRUE, "", req[p].device)]
    /\ UNCHANGED <<history, tokens, quarantine, now, issued, pushed, redeem>>

(***************************************************************************)
(* The response has been sent; the slot is free again.                     *)
(***************************************************************************)
Return(p) ==
    /\ req[p].pc = "done"
    /\ req' = [req EXCEPT ![p] = Idle]
    /\ solo' = IF solo = p THEN 0 ELSE solo
    /\ pre' = IF solo = p THEN [NoSnap EXCEPT !.last = Event(req[p])] ELSE pre
    /\ UNCHANGED <<latest, history, tokens, quarantine, now, nreq, issued, pushed, redeem,
                   sim, watch>>

\* the clock advances; Redis drops the keys whose expiry has come
Tick ==
    /\ NoneDone
    /\ now < MaxTime
    /\ now' = now + 1
    /\ tokens' = [t \in {x \in DOMAIN tokens : tokens[x].expires > now + 1} |-> tokens[t]]
    /\ UNCHANGED <<latest, history, quarantine, req, nreq, issued, pushed, redeem, solo, pre,
                   sim, watch>>

Next(w) ==
    \/ \E p \in Procs : gen_token(p, w)
    \/ \E p \in Procs : mark_safe_get(p, w)
    \/ \E p \in Procs : mark_safe_consume(p)
    \/ \E p \in Procs : mark_safe_set(p)
    \/ \E p \in Procs : webhook_sms_unauth(p, w)
    \/ \E p \in Procs : webhook_sms_lookup(p, w)
    \/ \E p \in Procs : webhook_sms_route(p)
    \/ \E p \in Procs : webhook_sms_set(p)
    \/ \E p \in Procs : get_location(p, w)
    \/ \E p \in Procs : resolve_token_lookup(p, w)
    \/ \E p \in Procs : resolve_token_get(p)
    \/ \E p \in Procs : upload_unauth(p, w)
    \/ \E p \in Procs : upload_get(p, w)
    \/ \E p \in Procs : upload_file_saved(p)
    \/ \E p \in Procs : upload_file_failed(p)
    \/ \E p \in Procs : upload_set(p)
    \/ \E p \in Procs : push_history_lpush(p)
    \/ \E p \in Procs : push_history_ltrim(p)
    \/ \E p \in Procs : Return(p)
    \/ Tick

\* the token flows under every interleaving
Spec == Init /\ [][Next(TokenLoad)]_vars

\* the error paths under every interleaving
SpecErrors == Init /\ [][Next(ErrorLoad)]_vars

\* the presence record and its history under every interleaving
SpecPresence == InitPresence /\ [][Next(PresenceLoad)]_vars

\* two devices under every interleaving
SpecIsolation == InitIsolation /\ [][Next(IsolationLoad)]_vars

(***************************************************************************)
(* The SIM800L gateway (src/gateway/SIM800L_gateway.py): main_loop polls    *)
(* the modem for SMS, forwards each one to the backend webhook and deletes *)
(* it from the modem.  One action is one exchange with the modem or with   *)
(* the backend.  sim holds the loop's variables and the modem's memory     *)
(* (inbox: index -> text); result and deleted record what has happened to  *)
(* each SMS, handled counts the SMS of the current poll that were dealt    *)
(* with.  Every index receives one SMS at most.                            *)
(***************************************************************************)
\* SMS the modem can hold
MaxSms == 3

SmsIndex == 1..MaxSms

\* "SOS a1" and "hi"
SmsSos == <<"S", "O", "S", " ", "a", "1">>
SmsTexts == {SmsSos, SmsPlain}

\* SMS_FILTER_PREFIX: empty (the default) or "SOS"
FilterPrefixes == {<<>>, <<"S", "O", "S">>}

\* status codes the backend or a proxy on the way can answer with
Statuses == {200, 204, 302, 500}

\* text.startswith(prefix)
startswith(text, prefix) ==
    /\ Len(prefix) <= Len(text)
    /\ SubSeq(text, 1, Len(prefix)) = prefix

\* SMS_FILTER_PREFIX and not text.startswith(SMS_FILTER_PREFIX)
prefix_mismatch(prefix, text) == prefix # <<>> /\ ~startswith(text, prefix)

\* a forward that takes every response for a success
forward_sms_any_response(status_code) == TRUE

\* forward_sms, given the status of the response: 200 <= r.status_code < 300
forward_sms(status_code) == 200 <= status_code /\ status_code < 300

NoResult == [outcome |-> "none", status |-> 0]

\* the elements of a set of indexes in ascending order, as the modem lists them
Ascending(S) ==
    CHOOSE q \in [1..Cardinality(S) -> S] :
        \A a, b \in 1..Cardinality(S) : a < b => q[a] < q[b]

\* the gateway starts with its configuration; the modem may hold SMS already
InitSim800 ==
    /\ InitStore(EmptyDict, NoHistory)
    /\ watch = Off
    /\ \E delete_on_success \in BOOLEAN, prefix \in FilterPrefixes :
          sim = [pc |-> "closed",
                 DELETE_ON_SUCCESS |-> delete_on_success,
                 SMS_FILTER_PREFIX |-> prefix,
                 inbox |-> EmptyDict,
                 msgs |-> <<>>, i |-> 1, ok |-> FALSE,
                 result |-> [x \in SmsIndex |-> NoResult],
                 deleted |-> {},
                 handled |-> 0]

\* an SMS arrives and the modem stores it under a free index
sms_received ==
    /\ sim.pc # "off"
    /\ \E idx \in SmsIndex, text \in SmsTexts :
          /\ idx \notin DOMAIN sim.inbox
          /\ idx \notin sim.deleted
          /\ \A x \in SmsIndex : x < idx => (x \in DOMAIN sim.inbox \/ x \in sim.deleted)
          /\ sim' = [sim EXCEPT !.inbox = Put(@, idx, text)]
    /\ UNCHANGED <<backend, watch>>

\* modem.open() succeeded
main_loop_open ==
    /\ sim.pc = "closed"
    /\ sim' = [sim EXCEPT !.pc = "list"]
    /\ UNCHANGED <<backend, watch>>

\* msgs = modem.list_unread_sms(): the SMS the modem reports as unread, a
\* part of those it holds
main_loop_list ==
    /\ sim.pc = "list"
    /\ \E unread \in SUBSET (DOMAIN sim.inbox) :
          sim' = [sim EXCEPT !.pc = "handle",
                             !.msgs = [k \in 1..Cardinality(unread) |->
                                         [idx |-> Ascending(unread)[k],
                                          text |-> sim.inbox[Ascending(unread)[k]]]],
                             !.i = 1, !.ok = FALSE, !.handled = 0]
    /\ UNCHANGED <<backend, watch>>

\* list_unread_sms raised serial.SerialException: the port is closed and the
\* loop starts over
main_loop_list_fails ==
    /\ sim.pc = "list"
    /\ sim' = [sim EXCEPT !.pc = "closed", !.msgs = <<>>, !.i = 1, !.ok = FALSE,
                           !.handled = 0]
    /\ UNCHANGED <<backend, watch>>

\* the loop is at the i-th SMS of the poll
AtSms == sim.pc = "handle" /\ sim.i <= Len(sim.msgs)

\* the SMS does not start with the prefix: continue
main_loop_skip ==
    /\ AtSms
    /\ prefix_mismatch(sim.SMS_FILTER_PREFIX, sim.msgs[sim.i].text)
    /\ sim' = [sim EXCEPT !.i = @ + 1, !.handled = @ + 1,
                           !.result[sim.msgs[sim.i].idx] =
                               [outcome |-> "skipped", status |-> 0]]
    /\ UNCHANGED <<backend, watch>>

\* ok = forward_sms(payload) with a response; delete_sms follows when
\* ok and DELETE_ON_SUCCESS (idx is never None: it is int() of \d+)
main_loop_forward ==
    /\ AtSms
    /\ ~prefix_mismatch(sim.SMS_FILTER_PREFIX, sim.msgs[sim.i].text)
    /\ \E status_code \in Statuses :
          LET ok == forward_sms(status_code)
              delete == ok /\ sim.DELETE_ON_SUCCESS
          IN  sim' = [sim EXCEPT !.ok = ok,
                                 !.pc = IF delete THEN "delete" ELSE "handle",
                                 !.i = IF delete THEN @ ELSE @ + 1,
                                 !.handled = @ + 1,
                                 !.result[sim.msgs[sim.i].idx] =
                                     [outcome |-> "forwarded", status |-> status_code]]
    /\ UNCHANGED <<backend, watch>>

\* requests.post raised requests.RequestException (no connection, timeout):
\* forward_sms returns False
main_loop_forward_error ==
    /\ AtSms
    /\ ~prefix_mismatch(sim.SMS_FILTER_PREFIX, sim.msgs[sim.i].text)
    /\ sim' = [sim EXCEPT !.ok = FALSE, !.i = @ + 1, !.handled = @ + 1,
                           !.result[sim.msgs[sim.i].idx] =
                               [outcome |-> "http_error", status |-> 0]]
    /\ UNCHANGED <<backend, watch>>

\* any other exception while the SMS is handled: the except clause inside
\* the for loop logs it and the loop goes on
main_loop_raises ==
    /\ AtSms
    /\ ~prefix_mismatch(sim.SMS_FILTER_PREFIX, sim.msgs[sim.i].text)
    /\ sim' = [sim EXCEPT !.ok = FALSE, !.i = @ + 1, !.handled = @ + 1,
                           !.result[sim.msgs[sim.i].idx] =
                               [outcome |-> "raised", status |-> 0]]
    /\ UNCHANGED <<backend, watch>>

\* modem.delete_sms(idx): AT+CMGD removes the SMS
main_loop_delete ==
    /\ sim.pc = "delete"
    /\ LET idx == sim.msgs[sim.i].idx
       IN  sim' = [sim EXCEPT !.pc = "handle", !.i = @ + 1,
                              !.inbox = Remove(@, idx),
                              !.deleted = @ \cup {idx}]
    /\ UNCHANGED <<backend, watch>>

\* the command raised: delete_sms logs a warning, the SMS stays
main_loop_delete_fails ==
    /\ sim.pc = "delete"
    /\ sim' = [sim EXCEPT !.pc = "handle", !.i = @ + 1]
    /\ UNCHANGED <<backend, watch>>

\* the for loop is through: time.sleep(POLL_INTERVAL), next poll
main_loop_sleep ==
    /\ sim.pc = "handle"
    /\ sim.i > Len(sim.msgs)
    /\ sim' = [sim EXCEPT !.pc = "list"]
    /\ UNCHANGED <<backend, watch>>

NextSim800 ==
    \/ sms_received
    \/ main_loop_open
    \/ main_loop_list
    \/ main_loop_list_fails
    \/ main_loop_skip
    \/ main_loop_forward
    \/ main_loop_forward_error
    \/ main_loop_raises
    \/ main_loop_delete
    \/ main_loop_delete_fails
    \/ main_loop_sleep

\* the SIM800L gateway with every outcome of its exchanges
SpecSim800 == InitSim800 /\ [][NextSim800]_vars

(***************************************************************************)
(* The upload gateway (src/gateway/upload_gateway.py): run_watch_folder    *)
(* polls WATCH_DIR and hands every new file to upload_clip, which POSTs it *)
(* to the backend with retries.  One action is one listing of the folder   *)
(* or one POST with what follows it up to the next POST.  watch holds the  *)
(* variables of both functions and the folder (disk); handed and outcome   *)
(* record the upload_clip calls per file name, posts and accepted the POSTs *)
(* of the current call and how many of them were answered 2xx.             *)
(***************************************************************************)
\* max_retries of upload_clip
max_retries == 3

\* names of the clips that appear in WATCH_DIR
ClipNames == {"a.webm", "b.webm"}

\* a sub-directory of WATCH_DIR, which glob("*") lists as well
Directories == {"tmp"}

\* p.is_file()
is_file(name) == name \in ClipNames

\* the orders in which a listing can give the files of the folder
Listings(S) ==
    {q \in [1..Cardinality(S) -> S] :
        \A a, b \in 1..Cardinality(S) : a # b => q[a] # q[b]}

\* finally: seen.add(p.name), whether upload_clip returned or raised
seen_add(seen, name, returned) == seen \cup {name}

InitWatch ==
    /\ InitStore(EmptyDict, NoHistory)
    /\ sim = Off
    /\ \E delete_on_success \in BOOLEAN :
          watch = [pc |-> "poll",
                   DELETE_ON_SUCCESS |-> delete_on_success,
                   disk |-> Directories,
                   seen |-> {},
                   files |-> <<>>, k |-> 1,
                   attempt |-> 1, posts |-> 0, accepted |-> 0,
                   handed |-> [n \in ClipNames \cup Directories |-> 0],
                   outcome |-> [n \in ClipNames \cup Directories |-> "none"]]

\* a clip is written to WATCH_DIR
file_created ==
    /\ watch.pc # "off"
    /\ \E name \in ClipNames \ watch.disk :
          watch' = [watch EXCEPT !.disk = @ \cup {name}]
    /\ UNCHANGED <<backend, sim>>

\* files = sorted(WATCH_DIR.glob("*"), key=mtime)
run_watch_folder_list ==
    /\ watch.pc = "poll"
    /\ \E files \in Listings(watch.disk) :
          watch' = [watch EXCEPT !.pc = "scan", !.files = files, !.k = 1]
    /\ UNCHANGED <<backend, sim>>

\* the for loop is at the k-th file of the listing
AtFile == watch.pc = "scan" /\ watch.k <= Len(watch.files)

\* if p.name in seen: continue
run_watch_folder_skip ==
    /\ AtFile
    /\ watch.files[watch.k] \in watch.seen
    /\ watch' = [watch EXCEPT !.k = @ + 1]
    /\ UNCHANGED <<backend, sim>>

\* if not p.is_file(): continue
run_watch_folder_skip_dir ==
    /\ AtFile
    /\ watch.files[watch.k] \notin watch.seen
    /\ ~is_file(watch.files[watch.k])
    /\ watch' = [watch EXCEPT !.k = @ + 1]
    /\ UNCHANGED <<backend, sim>>

\* upload_clip(p, lat, lon, timestamp=ts) is called: the first attempt is due
run_watch_folder_upload ==
    /\ AtFile
    /\ watch.files[watch.k] \notin watch.seen
    /\ is_file(watch.files[watch.k])
    /\ watch' = [watch EXCEPT !.pc = "post", !.attempt = 1, !.posts = 0,
                               !.accepted = 0,
                               !.handed[watch.files[watch.k]] = @ + 1]
    /\ UNCHANGED <<backend, sim>>

\* the watcher after upload_clip has returned or raised: seen.add, next file
after_upload(w, returned) ==
    [w EXCEPT !.pc = "scan",
              !.k = @ + 1,
              !.seen = seen_add(@, w.files[w.k], returned),
              !.outcome[w.files[w.k]] = IF returned THEN "returned" ELSE "raised"]

\* the except clause of an attempt: the next attempt, or after the last one
\* raise RuntimeError("upload failed after retries")
after_failed_attempt(w) ==
    IF w.attempt < max_retries
    THEN [w EXCEPT !.attempt = @ + 1]
    ELSE after_upload(w, FALSE)

\* the POST raised or was answered with a 4xx or 5xx status
\* (raise_for_status): the attempt failed
upload_clip_post_fails ==
    /\ watch.pc = "post"
    /\ watch' = after_failed_attempt([watch EXCEPT !.posts = @ + 1])
    /\ UNCHANGED <<backend, sim>>

\* the POST was answered 2xx: the file is unlinked when DELETE_ON_SUCCESS,
\* then return r.json(); when the body is not JSON, r.json() raises inside
\* the try and the except clause counts the attempt as failed
upload_clip_post_accepted ==
    /\ watch.pc = "post"
    /\ \E json_body \in BOOLEAN :
          LET name == watch.files[watch.k]
              w == [watch EXCEPT !.posts = @ + 1, !.accepted = @ + 1,
                                 !.disk = IF watch.DELETE_ON_SUCCESS
                                          THEN @ \ {name} ELSE @]
          IN  watch' = IF json_body THEN after_upload(w, TRUE)
                       ELSE after_failed_attempt(w)
    /\ UNCHANGED <<backend, sim>>

\* the for loop is through: time.sleep(POLL_INTERVAL), next poll
run_watch_folder_sleep ==
    /\ watch.pc = "scan"
    /\ watch.k > Len(watch.files)
    /\ watch' = [watch EXCEPT !.pc = "poll"]
    /\ UNCHANGED <<backend, sim>>

NextWatch ==
    \/ file_created
    \/ run_watch_folder_list
    \/ run_watch_folder_skip
    \/ run_watch_folder_skip_dir
    \/ run_watch_folder_upload
    \/ upload_clip_post_fails
    \/ upload_clip_post_accepted
    \/ run_watch_folder_sleep

\* the upload gateway with every outcome of its POSTs
SpecWatch == InitWatch /\ [][NextWatch]_vars

(***************************************************************************)
(* Properties.                                                             *)
(***************************************************************************)
\* the request in slot p has been answered
Answered(p, op, code) ==
    /\ req[p].pc = "done"
    /\ req[p].op = op
    /\ req[p].resp.code = code

\* slot p's request ran with no other request in flight
Alone(p) == solo = p

\* C1: of the redemption attempts on one token (the consume_token calls of
\* concurrent mark-safe requests), at most one obtains the bound device, every
\* other one obtains None, and once an attempt was made while the token was
\* unexpired exactly one has obtained the device.
C1_ExactlyOneRedeemer ==
    \A t \in DOMAIN issued :
        /\ redeem[t].calls = redeem[t].won + redeem[t].none
        /\ redeem[t].won <= 1
        /\ redeem[t].live >= 1 => redeem[t].won = 1

\* two mark-safe requests raced on one unexpired token: one is answered 401
\* while the winner has not yet written the record
C1_Witness ==
    \E p, q \in Procs, t \in DOMAIN issued :
        /\ p # q
        /\ req[p].op = "mark_safe" /\ req[p].token = t /\ req[p].pc = "m_set"
        /\ req[q].token = t
        /\ Answered(q, "mark_safe", 401)
        /\ redeem[t].live >= 2

\* the key space held token t when the request that now runs alone arrived
LiveAtArrival(t) == t \in DOMAIN pre.tokens

\* C2: with no concurrent request, (a) a webhook whose text carries a live
\* token of device D is answered ok with D and leaves D active; (b) a
\* mark_safe(D, t) with t live and bound to D succeeds, leaves D safe and uses
\* t up; (c) a mark_safe(D, t) with t already used up is answered 401 invalid
\* auth token and leaves every latest record and history as it was.
C2_EndToEnd ==
    \A p \in Procs : (Alone(p) /\ req[p].pc = "done") =>
        LET r == req[p]
            t == r.token
        IN  /\ (r.op = "webhook_sms" /\ r.resp.code # 401
                   /\ RE_TOKEN_search(r.raw) # <<>>
                   /\ LiveAtArrival(RE_TOKEN_search(r.raw)[1]))
                => /\ r.resp = Resp(200, TRUE, "", pre.tokens[RE_TOKEN_search(r.raw)[1]].device)
                   /\ r.resp.device \in DOMAIN latest
                   /\ latest[r.resp.device]["status"] = "active"
            /\ (r.op = "mark_safe" /\ r.device \in DOMAIN pre.latest
                   /\ LiveAtArrival(t) /\ pre.tokens[t].device = r.device
                   /\ now < issued[t].expires)
                => /\ r.resp = Resp(200, TRUE, "safe", Null)
                   /\ latest[r.device]["status"] = "safe"
                   /\ t \notin DOMAIN tokens
            /\ (r.op = "mark_safe" /\ r.device \in DOMAIN pre.latest
                   /\ t \in DOMAIN issued /\ ~LiveAtArrival(t))
                => /\ r.resp = Resp(401, FALSE, "invalid auth token", Null)
                   /\ latest = pre.latest
                   /\ history = pre.history

\* the whole scenario has run: the SMS link made D1 active, one mark-safe
\* redeemed the token, and a second one with the same, unexpired token is
\* answered 401
C2_Witness ==
    \E p \in Procs, t \in DOMAIN issued :
        /\ Alone(p)
        /\ Answered(p, "mark_safe", 401)
        /\ req[p].token = t
        /\ redeem[t].won = 1
        /\ now < issued[t].expires
        /\ "D1" \in DOMAIN latest
        /\ latest["D1"]["status"] = "safe"
        /\ "last_sms" \in DOMAIN latest["D1"]
        /\ \E i \in 1..Len(pushed["D1"]) : pushed["D1"][i]["event"] = "sos_via_link"

\* a step of slot p that leaves program point at
Leaves(p, at) == req[p].pc = at /\ req'[p] # req[p]

\* a request of kind op arrives in slot p
Arrives(p, op) == req[p].pc = "idle" /\ req'[p].op = op

\* token t was issued and its TTL has elapsed
Expired(t) == t \in DOMAIN issued /\ now >= issued[t].expires

\* C3 (as amended): once the TTL of a token has elapsed, a consume_token of it
\* returns None and the mark-safe that made it is answered 401; a webhook
\* lookup of it finds no device; resolve-token answers 404; and a mark-safe
\* request that arrives with it is answered 404 when the device has no latest
\* record and goes on to the 401 of its consume_token otherwise.
C3_ExpiredTokenIsDead ==
    [][\A p \in Procs :
        /\ (Leaves(p, "m_consume") /\ Expired(req[p].token))
            => /\ req'[p].pc = "done"
               /\ req'[p].resp = Resp(401, FALSE, "invalid auth token", Null)
               /\ redeem'[req[p].token].none = redeem[req[p].token].none + 1
               /\ redeem'[req[p].token].won = redeem[req[p].token].won
        /\ (Arrives(p, "mark_safe") /\ Expired(req'[p].token))
            => IF req'[p].device \in DOMAIN latest
               THEN req'[p].pc = "m_consume"
               ELSE req'[p].pc = "done" /\ req'[p].resp.code = 404
        /\ (Arrives(p, "webhook_sms") /\ Expired(req'[p].token))
            => req'[p].pc = "w_route" /\ req'[p].device = Null
        /\ (Arrives(p, "resolve_token") /\ Expired(req'[p].token))
            => req'[p].pc = "done" /\ req'[p].resp = Resp(404, FALSE, "token not found", Null)
      ]_vars

\* C3 as stated: every mark-safe request that carries an expired token fails
\* with the invalid-token outcome.
C3_Original ==
    [][\A p \in Procs :
        /\ (Leaves(p, "m_consume") /\ Expired(req[p].token))
            => req'[p].pc = "done" /\ req'[p].resp.code = 401
        /\ (Arrives(p, "mark_safe") /\ Expired(req'[p].token))
            => ~(req'[p].pc = "done" /\ req'[p].resp.code # 401)
      ]_vars

\* a token that was never redeemed has expired, and a mark-safe that carried
\* it afterwards is answered 401
C3_Witness ==
    \E p \in Procs, t \in DOMAIN issued :
        /\ Answered(p, "mark_safe", 401)
        /\ req[p].token = t
        /\ Expired(t)
        /\ redeem[t].calls >= 1
        /\ redeem[t].live = 0
        /\ redeem[t].won = 0

\* the store is left as it was by the step
StoreUnchanged == UNCHANGED <<latest, history, tokens, quarantine>>

\* C9: a mark-safe request for a device that has no latest record is answered
\* 404 device not found, with or without an auth token, and writes nothing:
\* no latest record, no history entry, and the token stays as it was.
C9_MarkSafeNeedsRecord ==
    [][\A p \in Procs :
        (Arrives(p, "mark_safe") /\ req'[p].device \notin DOMAIN latest)
            => /\ req'[p].pc = "done"
               /\ req'[p].resp = Resp(404, FALSE, "device not found", Null)
               /\ StoreUnchanged
               /\ pushed' = pushed
      ]_vars

\* a mark-safe that carried a live token of the device was answered 404, and
\* the device still has neither record nor history
C9_Witness ==
    \E p \in Procs :
        /\ Answered(p, "mark_safe", 404)
        /\ req[p].token \in DOMAIN tokens
        /\ tokens[req[p].token].device = req[p].device
        /\ req[p].device \notin DOMAIN latest
        /\ history[req[p].device] = <<>>

\* the text holds [?&]token= followed by at least one token character
HasTokenParam(s) ==
    \E i \in 1..Len(s) :
        /\ s[i] = "?" \/ s[i] = "&"
        /\ i + 7 <= Len(s)
        /\ \A k \in 1..6 : s[i + k] = TokenLit[k]
        /\ s[i + 7] \in TokenChars

\* the newest entry of the quarantine list was appended by the step
Quarantined(entry) == quarantine' = <<entry>> \o quarantine

\* C10: an authenticated webhook event whose text has no [?&]token=... is
\* answered not matched by the step that read it, and that step prepends one
\* entry {raw, from, ts} to unmapped:links; one whose extracted token has no
\* bound device is answered not matched by its next step, which prepends one
\* entry {raw, from, ts, token}; no other step of a webhook request touches
\* the list. raw is the text received, ts the caller's timestamp or the clock.
C10_UnmappedIsQuarantined ==
    [][\A p \in Procs :
        LET r == req'[p]
        IN  /\ (Arrives(p, "webhook_sms") /\ r.resp.code # 401)
                => /\ r.ts = 9 \/ r.ts = now
                   /\ IF HasTokenParam(r.raw)
                      THEN /\ r.pc = "w_route"
                           /\ quarantine' = quarantine
                           /\ r.token \notin DOMAIN tokens => r.device = Null
                      ELSE /\ r.pc = "done"
                           /\ r.resp = Resp(200, FALSE, "no token in SMS", Null)
                           /\ Quarantined([raw |-> r.raw, from |-> r.sender, ts |-> r.ts])
            /\ Leaves(p, "w_route")
                => IF req[p].device = Null
                   THEN /\ r.pc = "done"
                        /\ r.resp = Resp(200, FALSE, "unknown token", Null)
                        /\ r.raw = req[p].raw
                        /\ Quarantined([raw |-> req[p].raw, from |-> req[p].sender,
                                        ts |-> req[p].ts, token |-> req[p].token])
                   ELSE quarantine' = quarantine
            /\ (req[p].op = "webhook_sms" /\ req[p].pc # "w_route" /\ req'[p] # req[p])
                => quarantine' = quarantine
      ]_vars

\* both kinds of event were quarantined: one without a token pattern, and one
\* whose token was issued but is no longer bound
C10_Witness ==
    /\ Len(quarantine) = 2
    /\ \E i, j \in 1..2 :
          /\ "token" \notin DOMAIN quarantine[i]
          /\ quarantine[i]["raw"] = SmsNoSep
          /\ "token" \in DOMAIN quarantine[j]
          /\ quarantine[j]["token"] \in DOMAIN issued
          /\ quarantine[j]["raw"] = SmsTok1
    /\ \E p \in Procs : Answered(p, "webhook_sms", 200) /\ ~req[p].resp.ok

\* C4: the history list of every device holds at most cap entries in every
\* state an observer can read, also between the LPUSH and the LTRIM of one
\* push_history call.
C4_HistoryWithinCap ==
    \A d \in Devices : Len(history[d]) <= HistoryCap

\* the first n entries of a list
Take(list, n) == SubSeq(list, 1, IF n < Len(list) THEN n ELSE Len(list))

\* a push_history call for device d has sent its LPUSH and not yet its LTRIM
MidPush(d) == \E p \in Procs : req[p].pc = "ltrim" /\ req[p].device = d

\* C5: whenever no push_history call is between its two commands, the
\* history list of a device is the entries pushed for it, newest first, cut
\* to the cap most recent ones: after cap + k pushes exactly cap entries are
\* left and the k oldest are gone.
C5_HistoryKeepsNewest ==
    \A d \in Devices :
        ~MidPush(d) => history[d] = Take(Reverse(pushed[d]), HistoryCap)

\* more than cap entries were pushed for D1: the list holds cap of them, the
\* newest one first, and the oldest one is gone
C5_Witness ==
    /\ ~MidPush("D1")
    /\ Len(pushed["D1"]) > HistoryCap
    /\ Len(history["D1"]) = HistoryCap
    /\ history["D1"][1] = pushed["D1"][Len(pushed["D1"])]
    /\ \A i \in 1..Len(history["D1"]) : history["D1"][i] # pushed["D1"][1]

\* rec.get(k) of the stored record of device d, None when there is no record
Stored(store, d, k) == IF d \in DOMAIN store THEN Get(store[d], k, Null) ELSE Null

\* C6: with no concurrent request, the stored lat and lon of every device are
\* what they were when the request arrived, unless the request is an upload
\* that carried both lat and lon and was answered ok, which stores its own
\* values; a webhook answered ok also leaves the device active.
C6_CoordinatesPreserved ==
    \A p \in Procs : (Alone(p) /\ req[p].pc = "done") =>
        LET r == req[p]
            located == r.op = "upload" /\ r.resp.code = 200
                       /\ r.lat # Null /\ r.lon # Null
        IN  /\ \A d \in Devices :
                  IF located /\ d = r.device
                  THEN /\ Stored(latest, d, "lat") = r.lat
                       /\ Stored(latest, d, "lon") = r.lon
                  ELSE /\ Stored(latest, d, "lat") = Stored(pre.latest, d, "lat")
                       /\ Stored(latest, d, "lon") = Stored(pre.latest, d, "lon")
            /\ (r.op = "webhook_sms" /\ r.resp.ok)
                  => Stored(latest, r.device, "status") = "active"

\* a webhook with a valid token was answered ok for a device that had
\* coordinates and was safe: it is active and the coordinates are still there
C6_Witness ==
    \E p \in Procs :
        /\ Alone(p)
        /\ Answered(p, "webhook_sms", 200)
        /\ req[p].resp.ok
        /\ Stored(pre.latest, req[p].device, "status") = "safe"
        /\ Stored(pre.latest, req[p].device, "lat") = "12.0"
        /\ Stored(latest, req[p].device, "lat") = "12.0"
        /\ Stored(latest, req[p].device, "lon") = "77.0"
        /\ Stored(latest, req[p].device, "status") = "active"

\* C7: after an upload that carried lat and lon has been answered, with no
\* concurrent request, the device's latest status is active.
C7_LocationForcesActive ==
    \A p \in Procs :
        (Alone(p) /\ Answered(p, "upload", 200) /\ req[p].lat # Null /\ req[p].lon # Null)
            => Stored(latest, req[p].device, "status") = "active"

\* C8: the stored status of a device goes from active, or from no record, to
\* safe only in the step in which a mark-safe request writes its record.
C8_SafeOnlyByMarkSafe ==
    [][\A d \in Devices :
        (Stored(latest, d, "status") # "safe" /\ Stored(latest', d, "status") = "safe")
            => \E p \in Procs : /\ req[p].op = "mark_safe"
                                 /\ req[p].device = d
                                 /\ Leaves(p, "m_set")
      ]_vars

\* C11: the token lookup of a webhook event leaves the token in place: no step
\* of a webhook request changes a token key, an event that carries a bound
\* token is routed to the bound device, a token key goes away only by its
\* expiry or by the consume_token of a mark-safe, so a token that is unexpired
\* and was never redeemed is still bound to its device, and a mark-safe that
\* then arrives alone with it for that device succeeds.
C11_LookupKeepsToken ==
    [][/\ \A p \in Procs :
            /\ (Arrives(p, "webhook_sms") \/ (req[p].op = "webhook_sms" /\ req'[p] # req[p]))
                => tokens' = tokens
            /\ (Arrives(p, "webhook_sms") /\ req'[p].pc = "w_route"
                    /\ req'[p].token \in DOMAIN tokens)
                => req'[p].device = tokens[req'[p].token].device
            /\ (Alone(p) /\ req[p].pc = "done" /\ req[p].op = "mark_safe"
                    /\ req[p].device \in DOMAIN pre.latest
                    /\ LiveAtArrival(req[p].token)
                    /\ pre.tokens[req[p].token].device = req[p].device
                    /\ now < issued[req[p].token].expires)
                => req[p].resp = Resp(200, TRUE, "safe", Null)
       /\ \A t \in (DOMAIN tokens) \ (DOMAIN tokens') :
            \/ issued[t].expires <= now'
            \/ \E p \in Procs : Leaves(p, "m_consume") /\ req[p].token = t
       /\ \A t \in DOMAIN issued' :
            (now' < issued'[t].expires /\ redeem'[t].calls = 0)
                => t \in DOMAIN tokens' /\ tokens'[t].device = issued'[t].device
      ]_vars

\* two webhook events carried the same token and both reached the device;
\* the mark-safe that came after them with that token has succeeded
C11_Witness ==
    \E p \in Procs, t \in DOMAIN issued :
        /\ Alone(p)
        /\ Answered(p, "mark_safe", 200)
        /\ req[p].token = t
        /\ redeem[t].calls = 1
        /\ redeem[t].won = 1
        /\ Len(pushed[req[p].device]) = 3
        /\ pushed[req[p].device][1]["event"] = "sos_via_link"
        /\ pushed[req[p].device][2]["event"] = "sos_via_link"

\* C12: the consume_token of a mark_safe(D, t) whose token is bound to another
\* device ends the request with 401 invalid auth token, changes no latest
\* record and no history, and removes the token; a token that is gone never
\* comes back, and every later consume_token of it returns None and ends its
\* mark-safe with 401 as well. A mark-safe answered 401 that ran alone has
\* left every latest record and history as it found them.
C12_WrongDeviceBurnsToken ==
    [][/\ \A p \in Procs :
            LET t == req[p].token
            IN  /\ (Leaves(p, "m_consume") /\ token_get(t) # Null
                        /\ token_get(t) # req[p].device)
                    => /\ req'[p].pc = "done"
                       /\ req'[p].resp = Resp(401, FALSE, "invalid auth token", Null)
                       /\ latest' = latest /\ history' = history /\ pushed' = pushed
                       /\ t \notin DOMAIN tokens'
                /\ (Leaves(p, "m_consume") /\ t \notin DOMAIN tokens)
                    => /\ req'[p].pc = "done"
                       /\ req'[p].resp = Resp(401, FALSE, "invalid auth token", Null)
                       /\ latest' = latest /\ history' = history /\ pushed' = pushed
                       /\ tokens' = tokens
                /\ (Alone(p) /\ Answered(p, "mark_safe", 401))
                    => latest = pre.latest /\ history = pre.history
       /\ \A t \in DOMAIN issued : t \notin DOMAIN tokens => t \notin DOMAIN tokens'
      ]_vars

\* a mark-safe for another device has used the token up: the mark-safe for
\* the token's own device that came next, before the expiry, is answered 401
\* and that device was never marked safe
C12_Witness ==
    \E p \in Procs, t \in DOMAIN issued :
        /\ Alone(p)
        /\ Answered(p, "mark_safe", 401)
        /\ req[p].token = t
        /\ req[p].device = issued[t].device
        /\ now < issued[t].expires
        /\ redeem[t].calls = 2
        /\ redeem[t].won = 1
        /\ redeem[t].none = 1
        /\ latest[req[p].device]["status"] = "active"
        /\ \A i \in 1..Len(pushed[req[p].device]) :
              pushed[req[p].device][i]["event"] # "marked_safe"

\* the request in slot p ran alone, was answered ok, and applied the very
\* event (device, timestamp, payload) that the request before it applied
Replayed(p) ==
    /\ Alone(p)
    /\ req[p].pc = "done"
    /\ Event(req[p]) # NoEvent
    /\ Event(req[p]) = pre.last

\* C13: when a webhook or upload event is applied a second time right after
\* the first, the latest record of its device is after the replay what it was
\* before it, and the replay has appended to the history a duplicate of what
\* the first application appended, at least one entry.
C13_ReplayIsIdempotent ==
    \A p \in Procs : Replayed(p) =>
        LET d == req[p].device
            n == req[p].pushes
            log == pushed[d]
            m == Len(log)
        IN  /\ latest[d] = pre.latest[d]
            /\ n >= 1
            /\ 2 * n <= m
            /\ SubSeq(log, m - n + 1, m) = SubSeq(log, m - 2 * n + 1, m - n)

\* the request in slot p ran alone, has been answered, and the latest record
\* of its device is not what it was when the request arrived
ChangedRecord(p) ==
    /\ Alone(p)
    /\ req[p].pc = "done"
    /\ req[p].device \in DOMAIN latest
    /\ \/ req[p].device \notin DOMAIN pre.latest
       \/ latest[req[p].device] # pre.latest[req[p].device]

\* C14: a webhook, upload or mark-safe request that has changed the latest
\* record of its device has also appended at least one entry to that device's
\* history; and a step changes a history list only by prepending one entry
\* or by cutting it to its cap newest entries.
C14_EveryChangeIsLogged ==
    [][/\ \A p \in Procs : ChangedRecord(p) => req[p].pushes >= 1
       /\ \A d \in Devices :
            \/ history'[d] = history[d]
            \/ history'[d] # <<>> /\ Tail(history'[d]) = history[d]
            \/ Len(history[d]) > HistoryCap /\ history'[d] = Take(history[d], HistoryCap)
      ]_vars

\* C15: an authenticated webhook request that has been answered has done
\* exactly one of two things: it was answered ok with a device and has written
\* that device's latest record once and appended nothing to unmapped:links,
\* or it was answered not ok and has appended one entry to unmapped:links and
\* written no latest record.
C15_MutationOrQuarantine ==
    \A p \in Procs :
        (req[p].op = "webhook_sms" /\ req[p].pc = "done" /\ req[p].resp.code # 401)
            => \/ /\ req[p].resp.ok
                  /\ req[p].resp.device = req[p].device
                  /\ req[p].device \in DOMAIN latest
                  /\ req[p].sets = 1
                  /\ req[p].unmapped = 0
               \/ /\ ~req[p].resp.ok
                  /\ req[p].sets = 0
                  /\ req[p].pushes = 0
                  /\ req[p].unmapped = 1

\* one event was quarantined and the next one, with a bound token, has
\* written the device's record
C15_Witness ==
    \E p \in Procs :
        /\ Answered(p, "webhook_sms", 200)
        /\ req[p].resp.ok
        /\ req[p].sets = 1
        /\ req[p].pushes = 1
        /\ latest[req[p].device]["last_sms"] = req[p].raw
        /\ Len(quarantine) = 1
        /\ quarantine[1]["raw"] = SmsPlain

\* C16: a request one of whose store calls failed is answered with a
\* store-unavailable error (a 5xx); it is not answered unknown token and it
\* appends nothing to unmapped:links.
C16_StoreFailurePropagates ==
    \A p \in Procs :
        req[p].failed =>
            /\ req[p].unmapped = 0
            /\ req[p].resp.detail # "unknown token"
            /\ req[p].pc = "done" => req[p].resp.code >= 500

\* C17: a get_location for a device that has no latest record is answered
\* 404 device not found and carries no record; for a device that has one it
\* is answered with the fields of that record, lat and lon being None when
\* the record holds no coordinates; a latest record is never empty, and no
\* step removes one.
C17_NotFoundOrTheRecord ==
    [][/\ \A p \in Procs : Arrives(p, "get_location") =>
            LET d == req'[p].device
                r == req'[p]
            IN  /\ r.pc = "done"
                /\ latest' = latest
                /\ IF d \notin DOMAIN latest
                   THEN /\ r.resp = Resp(404, FALSE, "device not found", Null)
                        /\ r.rec = EmptyDict
                   ELSE /\ r.resp = Resp(200, TRUE, "", d)
                        /\ r.rec.device = d
                        /\ r.rec.lat = Stored(latest, d, "lat")
                        /\ r.rec.lon = Stored(latest, d, "lon")
                        /\ r.rec.timestamp = latest[d]["timestamp"]
                        /\ r.rec.status = latest[d]["status"]
                        /\ r.rec.audio_url = Stored(latest, d, "audio_url")
                        /\ r.rec.audio_ts = Stored(latest, d, "audio_ts")
       /\ (DOMAIN latest) \subseteq (DOMAIN latest')
       /\ \A d \in DOMAIN latest' : latest'[d] # EmptyDict
      ]_vars

\* an upload without coordinates has created the record of a device, and a
\* get_location of it is answered with that record and lat, lon None
C17_Witness ==
    \E p \in Procs :
        /\ Answered(p, "get_location", 200)
        /\ "lat" \notin DOMAIN latest[req[p].device]
        /\ req[p].rec.lat = Null
        /\ req[p].rec.lon = Null
        /\ req[p].rec.status = "active"
        /\ req[p].rec.timestamp = latest[req[p].device]["timestamp"]

\* C18: the write of a latest record is unguarded: the set_latest of an
\* upload, webhook or mark-safe request replaces the stored record by the copy
\* the request made from its own earlier read, whatever another request has
\* stored in between, so a field written in between is lost.
C18_LastWriteWins ==
    [][\A p \in Procs :
        /\ (Leaves(p, "u_set") \/ Leaves(p, "w_set"))
            => latest' = Put(latest, req[p].device, req[p].rec)
        /\ Leaves(p, "m_set")
            => latest' = Put(latest, req[p].device, mark_safe_record(req[p].rec))
      ]_vars

\* a lost update: an upload with a file and a webhook event for the same
\* device overlapped and both were answered ok; the history holds the entries
\* of both, and the latest record, written last by the webhook, has no
\* audio_url
C18_Witness ==
    \E p \in Procs :
        LET d == req[p].device
        IN  /\ Answered(p, "webhook_sms", 200)
            /\ req[p].resp.ok
            /\ Quiet(p)
            /\ ~Alone(p)
            /\ nreq = 2
            /\ "last_sms" \in DOMAIN latest[d]
            /\ "audio_url" \notin DOMAIN latest[d]
            /\ \E i \in 1..Len(pushed[d]) : pushed[d][i]["event"] = "audio_upload"
            /\ \E i \in 1..Len(pushed[d]) : pushed[d][i]["event"] = "sos_via_link"

\* the device of the request that steps in slot p
StepDevice(p) == IF req[p].pc = "idle" THEN req'[p].device ELSE req[p].device

\* C19: a step of a request for device D leaves the latest record and the
\* history of every other device as they are; the steps of the presence
\* operations (uploads, webhook events, get_location, the record write and
\* the history push of a mark-safe) change no token key; and the token steps
\* (gen_token, the consume_token of a mark-safe) change no latest record and
\* no history.
C19_PerDeviceIsolation ==
    [][\A p \in Procs : req'[p] # req[p] =>
        /\ \A d \in Devices \ {StepDevice(p)} :
              /\ get_latest(d) = (IF d \in DOMAIN latest' THEN <<latest'[d]>> ELSE <<>>)
              /\ history'[d] = history[d]
        /\ tokens' # tokens
              => Arrives(p, "gen_token") \/ Leaves(p, "m_consume")
        /\ (Arrives(p, "gen_token") \/ Leaves(p, "m_consume"))
              => latest' = latest /\ history' = history
      ]_vars

\* a request for D1 and a request for D2 are in flight together, each between
\* the LPUSH and the LTRIM of its own device's history
C19_Witness ==
    \E p, q \in Procs :
        /\ req[p].device = "D1" /\ req[p].pc = "ltrim" /\ req[p].pushes >= 1
        /\ req[q].device = "D2" /\ req[q].pc = "ltrim" /\ req[q].pushes >= 1
        /\ Len(history["D1"]) = 2
        /\ Len(history["D2"]) = 2

\* C20: a mark-safe request that is answered device not found has made no
\* consume_token call and leaves every token key as it is; a consume_token
\* call is made only by a mark-safe request that read a latest record of its
\* device, and a token key goes away only by expiry or by such a call; so a
\* token that met only device-not-found answers is, until it expires, still
\* bound to its device.
C20_ExistenceBeforeRedemption ==
    [][/\ \A p \in Procs :
            /\ (Arrives(p, "mark_safe") /\ req'[p].pc = "done")
                => /\ req'[p].resp = Resp(404, FALSE, "device not found", Null)
                   /\ req'[p].device \notin DOMAIN latest
                   /\ tokens' = tokens
                   /\ \A t \in DOMAIN issued : redeem'[t].calls = redeem[t].calls
            /\ Leaves(p, "m_consume")
                => /\ req[p].op = "mark_safe"
                   /\ req[p].rec # EmptyDict
                   /\ req[p].device \in DOMAIN latest
       /\ \A t \in (DOMAIN tokens) \ (DOMAIN tokens') :
            \/ issued[t].expires <= now'
            \/ \E p \in Procs : /\ Leaves(p, "m_consume")
                                 /\ req[p].token = t
                                 /\ req[p].rec # EmptyDict
       /\ \A t \in DOMAIN issued' :
            (redeem'[t].notfound >= 1 /\ redeem'[t].calls = 0 /\ now' < issued'[t].expires)
                => t \in DOMAIN tokens' /\ tokens'[t].device = issued'[t].device
      ]_vars

\* a mark-safe with the token was answered device not found; after the
\* device had reported, a mark-safe with the same token has succeeded
C20_Witness ==
    \E p \in Procs, t \in DOMAIN issued :
        /\ Alone(p)
        /\ Answered(p, "mark_safe", 200)
        /\ req[p].token = t
        /\ redeem[t].notfound = 1
        /\ redeem[t].calls = 1
        /\ redeem[t].won = 1
        /\ latest[req[p].device]["status"] = "safe"

\* C21: the steps a quarantined webhook event is made of, the lookup and the
\* routing, change no latest record, no history list and no token key; a
\* webhook request that was answered not ok has made no set_latest call and
\* no history push, and when it ran alone the latest records and histories
\* are what they were when it arrived and unmapped:links has grown by its
\* one entry.
C21_QuarantineTouchesNothingElse ==
    [][\A p \in Procs :
        /\ (Arrives(p, "webhook_sms") \/ Leaves(p, "w_route"))
            => /\ latest' = latest
               /\ history' = history
               /\ pushed' = pushed
               /\ tokens' = tokens
        /\ (req[p].op = "webhook_sms" /\ req[p].pc = "done" /\ ~req[p].resp.ok)
            => /\ req[p].sets = 0
               /\ req[p].pushes = 0
               /\ (Alone(p) /\ req[p].resp.code # 401)
                    => /\ latest = pre.latest
                       /\ history = pre.history
                       /\ Len(quarantine) = Len(pre.quarantine) + 1
                       /\ Tail(quarantine) = pre.quarantine
                       /\ (DOMAIN tokens) \subseteq (DOMAIN pre.tokens)
                       /\ \A t \in DOMAIN tokens : tokens[t] = pre.tokens[t]
                       /\ \A t \in (DOMAIN pre.tokens) \ (DOMAIN tokens) : Expired(t)
      ]_vars

\* a device has a record and a token is bound when an event with an unknown
\* token, running alone, ends in quarantine: record, history and token are
\* all still there
C21_Witness ==
    \E p \in Procs :
        /\ Alone(p)
        /\ Answered(p, "webhook_sms", 200)
        /\ req[p].resp.detail = "unknown token"
        /\ ~req[p].failed
        /\ req[p].unmapped = 1
        /\ "D1" \in DOMAIN latest
        /\ history["D1"] # <<>>
        /\ tokens # EmptyDict
        /\ tokens = pre.tokens

\* the forward of the SMS under index idx was answered with a 2xx status
Forwarded2xx(idx) ==
    /\ sim.result[idx].outcome = "forwarded"
    /\ 200 <= sim.result[idx].status
    /\ sim.result[idx].status < 300

\* C22: the gateway sends the delete command for an SMS only right after the
\* forward of that SMS was answered 2xx, and only with DELETE_ON_SUCCESS set;
\* an SMS leaves the modem by that command only, so an SMS that was skipped
\* or whose forward failed is still there; and the poll goes on to the next
\* SMS after every outcome: it ends when all listed SMS have been handled.
C22_DeleteOnlyAfter2xx ==
    [][/\ sim.pc = "delete"
            => /\ sim.ok
               /\ sim.DELETE_ON_SUCCESS
               /\ Forwarded2xx(sim.msgs[sim.i].idx)
       /\ \A idx \in (DOMAIN sim.inbox) \ (DOMAIN sim'.inbox) :
            /\ sim.pc = "delete"
            /\ idx = sim.msgs[sim.i].idx
            /\ Forwarded2xx(idx)
       /\ \A idx \in SmsIndex :
            /\ idx \in sim.deleted => Forwarded2xx(idx) /\ sim.DELETE_ON_SUCCESS
            /\ (sim.result[idx].outcome # "none" /\ ~Forwarded2xx(idx))
                => idx \in DOMAIN sim.inbox
       /\ (sim.pc = "handle" /\ sim'.pc = "list")
            => sim.handled = Len(sim.msgs)
       /\ (AtSms /\ sim'.handled # sim.handled)
            => /\ sim'.msgs = sim.msgs
               /\ \/ sim'.pc = "handle" /\ sim'.i = sim.i + 1
                  \/ sim'.pc = "delete" /\ sim'.i = sim.i
       /\ (sim.pc = "delete" /\ sim'.pc # sim.pc)
            => sim'.msgs = sim.msgs /\ sim'.pc = "handle" /\ sim'.i = sim.i + 1
      ]_vars

\* one poll listed three SMS: the forward of the first failed, the second was
\* skipped by the prefix filter, the third was forwarded with 2xx and
\* deleted; the first two are still in the modem
C22_Witness ==
    /\ sim.pc = "handle"
    /\ Len(sim.msgs) = 3
    /\ sim.i = 4
    /\ sim.handled = 3
    /\ sim.result[sim.msgs[1].idx].outcome \in {"http_error", "raised"}
    /\ sim.result[sim.msgs[2].idx].outcome = "skipped"
    /\ sim.msgs[3].idx \in sim.deleted
    /\ sim.msgs[1].idx \in DOMAIN sim.inbox
    /\ sim.msgs[2].idx \in DOMAIN sim.inbox

\* the step ends the upload_clip call for the file at hand
EndsUpload == watch.pc = "post" /\ watch'.pc = "scan"

\* C23: an upload_clip call makes at most max_retries POSTs; it makes no
\* POST after one that was answered 2xx, but returns the response; it raises
\* upload failed after retries only after max_retries POSTs that all failed;
\* and the file leaves the disk only in the step of a POST answered 2xx.
C23_UploadClipRetries ==
    [][/\ watch.pc = "post"
            => /\ watch.posts < max_retries
               /\ watch.attempt = watch.posts + 1
               /\ watch.accepted = 0
       /\ EndsUpload
            => LET name == watch.files[watch.k]
               IN  /\ watch'.posts <= max_retries
                   /\ watch'.outcome[name] = "returned"
                        => watch'.accepted = 1 /\ watch.accepted = 0
                   /\ watch'.outcome[name] = "raised"
                        => watch'.accepted = 0 /\ watch'.posts = max_retries
       /\ watch'.disk # watch.disk /\ watch.disk \ watch'.disk # {}
            => /\ watch.pc = "post"
               /\ watch'.accepted = watch.accepted + 1
               /\ watch.disk \ watch'.disk = {watch.files[watch.k]}
      ]_vars

\* the step calls upload_clip for the file at hand
StartsUpload == AtFile /\ watch'.pc = "post"

\* C24: every file name is handed to upload_clip at most once: a name is
\* handed over only while it is not in seen, and it is in seen once
\* upload_clip has returned or raised; a file whose upload raised is still
\* on disk and no later poll hands it over again.
C24_EachNameHandedOnce ==
    [][/\ \A n \in DOMAIN watch.handed :
            /\ watch'.handed[n] <= 1
            /\ watch.outcome[n] # "none" => n \in watch.seen
            /\ n \in watch.seen => watch'.handed[n] = watch.handed[n]
            /\ watch'.outcome[n] = "raised" => n \in watch'.disk
       /\ StartsUpload => watch.files[watch.k] \notin watch.seen
       /\ EndsUpload => /\ watch.files[watch.k] \in watch'.seen
                        /\ watch'.outcome[watch.files[watch.k]] # "none"
       /\ watch.seen \subseteq watch'.seen
      ]_vars

====
